---- MODULE Spec2Model ----
(***************************************************************************)
(* Model of tlc::rt::Context (lib/rt.cpp, include/tlc/rt.h): the heap      *)
(* store of reference-counted memory handles, the variable table, the      *)
(* candidate list of the minor collector and the resumable mark-and-sweep  *)
(* of the major collector.  Every public method is one action; a method    *)
(* that throws leaves the partial state the code leaves and records the    *)
(* exception in `last`.                                                    *)
(***************************************************************************)
EXTENDS Integers, Sequences, FiniteSets, TLC

\* ------------------------------------------------------------------ bounds
MaxAllocs == 2
MaxLen == 1
MaxVar == 2
MaxCand == 2
MaxBudget == 1

AllocIds == 1..MaxAllocs
VarIds == 1..MaxVar
IntPayloads == {0}
Sizes == -1..MaxLen
Indices == -1..(MaxLen - 1)
Budgets == -1..MaxBudget

\* ------------------------------------------------------------------ values
\* struct Value { i64 data; ValueType type; }
INT(n) == [data |-> n, type |-> "integer"]
HANDLE(n) == [data |-> n, type |-> "memory_handle"]
\* Value() value-initialised by std::vector<Value>(size) and by m_data[id]
DefaultValue == INT(0)
NoValue == [data |-> 0, type |-> "none"]
\* the Values an embedder passes: integers, and handles carrying an identifier
\* the counter can issue (issued or not yet, present or released)
ArgValues == {INT(n) : n \in IntPayloads} \cup {HANDLE(i) : i \in AllocIds}

\* MemoryHandle(data, alloc_id, ref_count): flags(0)
MemoryHandle(data, alloc_id, ref_count) ==
    [data |-> data, alloc_id |-> alloc_id, ref_count |-> ref_count, flags |-> 0]

\* ------------------------------------------------------------------ state
VARIABLES
    m_alloc_counter,             \* i64, next identifier
    m_data,                      \* unordered_map<VarT, Value>
    m_mem_handles,               \* unordered_map<i64, MemoryHandle>
    m_gc_candidates,             \* vector<i64>
    m_magc_visited_mem_handles,  \* unordered_set<i64>
    m_magc_new_mem_handles,      \* unordered_set<i64>
    m_magc_next_mem_handles,     \* unordered_set<i64>, kept in its iteration order
    m_magc_last_handle,          \* i64 cursor
    m_magc_last_handle_entry,    \* i64 cursor
    m_magc_state,                \* i8
    last,                        \* the call that just ended: kind, exception, budget
    script                       \* the calls made so far, while they follow a scenario

vars == <<m_alloc_counter, m_data, m_mem_handles, m_gc_candidates,
          m_magc_visited_mem_handles, m_magc_new_mem_handles,
          m_magc_next_mem_handles, m_magc_last_handle,
          m_magc_last_handle_entry, m_magc_state, last, script>>

\* The context as one record, so that the methods compose as operators.
Context ==
    [m_alloc_counter |-> m_alloc_counter,
     m_data |-> m_data,
     m_mem_handles |-> m_mem_handles,
     m_gc_candidates |-> m_gc_candidates,
     m_magc_visited_mem_handles |-> m_magc_visited_mem_handles,
     m_magc_new_mem_handles |-> m_magc_new_mem_handles,
     m_magc_next_mem_handles |-> m_magc_next_mem_handles,
     m_magc_last_handle |-> m_magc_last_handle,
     m_magc_last_handle_entry |-> m_magc_last_handle_entry,
     m_magc_state |-> m_magc_state]

\* Outcome of a (sub)call: the context it leaves, the exception in flight
\* ("none", "runtime_error" thrown by the code, "out_of_range" thrown by
\* unordered_map::at) and the value returned.
Ok(c) == [c |-> c, err |-> "none", ret |-> NoValue]
Ret(c, v) == [c |-> c, err |-> "none", ret |-> v]
Throw(c, e) == [c |-> c, err |-> e, ret |-> NoValue]

\* Outcome of a majorGC call: also the data slots it examined (step_counter)
\* and whether it ended at "if (step_counter >= max_steps) return;"
GcOutcome(c, err, steps, exhausted) ==
    [c |-> c, err |-> err, ret |-> NoValue, steps |-> steps, exhausted |-> exhausted]

\* ------------------------------------------------------------------ helpers
Present(c, id) == id \in DOMAIN c.m_mem_handles

RemoveKey(f, k) == [x \in (DOMAIN f) \ {k} |-> f[x]]

\* All iteration orders of a set (unordered containers iterate in an
\* unspecified order).
Perms(S) ==
    {s \in [1..Cardinality(S) -> S] : \A i, j \in 1..Cardinality(S) : i # j => s[i] # s[j]}

Range(s) == {s[i] : i \in 1..Len(s)}

\* void Context::assertValidMemHandle(const Value&): TRUE iff it does not throw
assertValidMemHandle(c, value) ==
    value.type = "memory_handle" /\ Present(c, value.data)

\* void Context::incref(const Value&)
incref(c, mem_handle) ==
    IF ~assertValidMemHandle(c, mem_handle)
    THEN Throw(c, "runtime_error")
    ELSE Ok([c EXCEPT !.m_mem_handles[mem_handle.data].ref_count = @ + 1])

\* the test of decref that makes a cell a candidate
IsCandidateCount(ref_count) == ref_count <= 0

\* void Context::decref(const Value&)
decref(c, mem_handle) ==
    IF ~assertValidMemHandle(c, mem_handle)
    THEN Throw(c, "runtime_error")
    ELSE LET rc == c.m_mem_handles[mem_handle.data].ref_count - 1
             c1 == [c EXCEPT !.m_mem_handles[mem_handle.data].ref_count = rc]
         IN  IF IsCandidateCount(rc)
             THEN Ok([c1 EXCEPT !.m_gc_candidates = Append(@, mem_handle.data)])
             ELSE Ok(c1)

\* "if (v.type == memory_handle) decref(v)" / "... incref(v)"
decrefIfHandle(c, v) == IF v.type = "memory_handle" THEN decref(c, v) ELSE Ok(c)
increfIfHandle(c, v) == IF v.type = "memory_handle" THEN incref(c, v) ELSE Ok(c)

\* ------------------------------------------------------------------ heap
\* alloc with the counter left where it was
alloc_keepsCounter(c, size) ==
    IF size < 0
    THEN Throw(c, "runtime_error")
    ELSE LET alloc_id == c.m_alloc_counter
             cell == MemoryHandle([i \in 1..size |-> DefaultValue], alloc_id, 0)
         IN  Ret([c EXCEPT !.m_mem_handles = (alloc_id :> cell) @@ @], HANDLE(alloc_id))

\* Value Context::alloc(i64 size)
alloc(c, size) ==
    IF size < 0
    THEN Throw(c, "runtime_error")
    ELSE LET alloc_id == c.m_alloc_counter
             cell == MemoryHandle([i \in 1..size |-> DefaultValue], alloc_id, 0)
         IN  Ret([c EXCEPT !.m_alloc_counter = @ + 1,
                           !.m_mem_handles = @ @@ (alloc_id :> cell)],
                 HANDLE(alloc_id))

\* push with the value counted before the array is validated
push_countsFirst(c, array, value) ==
    LET r == increfIfHandle(c, value)
    IN  IF r.err # "none" THEN r
        ELSE IF ~assertValidMemHandle(r.c, array) THEN Throw(r.c, "runtime_error")
        ELSE Ok([r.c EXCEPT !.m_mem_handles[array.data].data = Append(@, value)])

\* void Context::push(Value array, Value value)
push(c, array, value) ==
    IF ~assertValidMemHandle(c, array)
    THEN Throw(c, "runtime_error")
    ELSE LET r == increfIfHandle(c, value)
         IN  IF r.err # "none"
             THEN r
             ELSE Ok([r.c EXCEPT !.m_mem_handles[array.data].data = Append(@, value)])

\* Value Context::pop(Value array)
pop(c, array) ==
    IF ~assertValidMemHandle(c, array)
    THEN Throw(c, "runtime_error")
    ELSE LET data == c.m_mem_handles[array.data].data
         IN  IF Len(data) = 0
             THEN Throw(c, "runtime_error")
             ELSE LET value == data[Len(data)]
                      r == decrefIfHandle(c, value)
                  IN  IF r.err # "none"
                      THEN r
                      ELSE Ret([r.c EXCEPT !.m_mem_handles[array.data].data =
                                              SubSeq(@, 1, Len(@) - 1)],
                               value)

\* void Context::write(Value array, i64 index, Value value); index is
\* zero-based as in the code, sequences are one-based
write(c, array, index, value) ==
    IF ~assertValidMemHandle(c, array)
    THEN Throw(c, "runtime_error")
    ELSE LET data == c.m_mem_handles[array.data].data
         IN  IF index < 0 \/ index >= Len(data)
             THEN Throw(c, "runtime_error")
             ELSE LET current == data[index + 1]
                      r1 == decrefIfHandle(c, current)
                      r2 == increfIfHandle(r1.c, value)
                  IN  IF r1.err # "none" THEN r1
                      ELSE IF r2.err # "none" THEN r2
                      ELSE Ok([r2.c EXCEPT !.m_mem_handles[array.data].data[index + 1] = value])

\* Value Context::read(Value array, i64 index)
read(c, array, index) ==
    IF ~assertValidMemHandle(c, array)
    THEN Throw(c, "runtime_error")
    ELSE LET data == c.m_mem_handles[array.data].data
         IN  IF index < 0 \/ index >= Len(data)
             THEN Throw(c, "runtime_error")
             ELSE Ret(c, data[index + 1])

\* ------------------------------------------------------------------ roots
\* bool Context::varIsDefined(VarT id)
varIsDefined(c, id) == id \in DOMAIN c.m_data

\* void Context::assign(VarT id, Value value): m_data[id] inserts a
\* value-initialised Value when id is absent, before anything can throw
assign(c, id, value) ==
    LET c0 == IF varIsDefined(c, id) THEN c
              ELSE [c EXCEPT !.m_data = @ @@ (id :> DefaultValue)]
        current == c0.m_data[id]
        r1 == decrefIfHandle(c0, current)
        r2 == increfIfHandle(r1.c, value)
    IN  IF r1.err # "none" THEN r1
        ELSE IF r2.err # "none" THEN r2
        ELSE Ok([r2.c EXCEPT !.m_data[id] = value])

\* void Context::erase(VarT id)
erase(c, id) ==
    IF ~varIsDefined(c, id)
    THEN Throw(c, "runtime_error")
    ELSE LET r == decrefIfHandle(c, c.m_data[id])
         IN  IF r.err # "none"
             THEN r
             ELSE Ok([r.c EXCEPT !.m_data = RemoveKey(@, id)])

\* ------------------------------------------------------------------ release
\* the body of the loop of decoupleMemHandle
decoupleValue(c, v) ==
    IF v.type = "memory_handle" /\ Present(c, v.data) THEN decref(c, v).c ELSE c

RECURSIVE decoupleFrom(_, _, _)
decoupleFrom(c, data, i) ==
    IF i > Len(data) THEN c ELSE decoupleFrom(decoupleValue(c, data[i]), data, i + 1)

\* void Context::decoupleMemHandle(const MemoryHandle& mh)
decoupleMemHandle(c, mh) == decoupleFrom(c, mh.data, 1)

\* void Context::destroyMemHandle(const MemoryHandle& mh)
destroyMemHandle(c, mh) == [c EXCEPT !.m_mem_handles = RemoveKey(@, mh.alloc_id)]

\* second loop of releaseGarbage
RECURSIVE decoupleAll(_, _, _)
decoupleAll(c, allocs, i) ==
    IF i > Len(allocs) THEN c
    ELSE decoupleAll(decoupleMemHandle(c, c.m_mem_handles[allocs[i]]), allocs, i + 1)

\* third loop of releaseGarbage: m_mem_handles.at(ga) throws std::out_of_range
\* when ga was destroyed earlier in the same loop
RECURSIVE destroyAll(_, _, _)
destroyAll(c, allocs, i) ==
    IF i > Len(allocs) THEN Ok(c)
    ELSE IF ~Present(c, allocs[i]) THEN Throw(c, "out_of_range")
    ELSE destroyAll(destroyMemHandle(c, c.m_mem_handles[allocs[i]]), allocs, i + 1)

\* void Context::releaseGarbage(const std::vector<i64>& garbage_allocs)
releaseGarbage(c, garbage_allocs) ==
    LET m_release_tmp_valid_garbage_allocs ==
            SelectSeq(garbage_allocs, LAMBDA ga : Present(c, ga))
    IN  destroyAll(decoupleAll(c, m_release_tmp_valid_garbage_allocs, 1),
                   m_release_tmp_valid_garbage_allocs, 1)

\* ------------------------------------------------------------------ minor GC
\* minorGC without the re-check of ref_count: every present candidate goes
IsMinorGarbage_anyCandidate(c, p) == Present(c, p)

\* the candidates the first loop of minorGC keeps
IsMinorGarbage(c, p) == Present(c, p) /\ c.m_mem_handles[p].ref_count <= 0

\* void Context::minorGC()
minorGC(c) ==
    LET m_migc_tmp_garbage_allocs ==
            SelectSeq(c.m_gc_candidates, LAMBDA p : IsMinorGarbage(c, p))
        r == releaseGarbage(c, m_migc_tmp_garbage_allocs)
    IN  IF r.err # "none" THEN r
        ELSE Ok([r.c EXCEPT !.m_gc_candidates = <<>>])

\* ------------------------------------------------------------------ major GC
\* m_magc_*.clear() at the start of a cycle
clearScratch(c) ==
    [c EXCEPT !.m_magc_next_mem_handles = <<>>,
              !.m_magc_visited_mem_handles = {},
              !.m_magc_new_mem_handles = {}]

\* Reset: mh.flags &= 0xFFFFFFFE on every cell
resetFlags(c) ==
    [c EXCEPT !.m_mem_handles = [id \in DOMAIN @ |-> [@[id] EXCEPT !.flags = 0]]]

\* the identifiers Seed emplaces into the next frontier
RootHandles(c) ==
    {c.m_data[v].data : v \in {w \in DOMAIN c.m_data : c.m_data[w].type = "memory_handle"}}

\* Seed: emplace the root handles into the next frontier; one result per
\* iteration order the set may then have
seed(c) ==
    {[c EXCEPT !.m_magc_next_mem_handles = order] :
        order \in Perms(Range(c.m_magc_next_mem_handles) \cup RootHandles(c))}

\* "for (i64 p : next) visited.emplace(p)"
transferToVisited(c) ==
    [c EXCEPT !.m_magc_visited_mem_handles = @ \cup Range(c.m_magc_next_mem_handles)]

\* mh.flags |= 0x1
markCell(c, p) == [c EXCEPT !.m_mem_handles[p].flags = 1]

\* the test on a data slot in the mark loops
IsNewHandle(c, v) ==
    v.type = "memory_handle" /\ v.data \notin c.m_magc_visited_mem_handles

\* examine with the child dropped: the mark stops at the roots
examine_dropsChild(c, v) == c

\* one data slot examined: the body of the inner loop
examine(c, v) ==
    IF IsNewHandle(c, v)
    THEN [c EXCEPT !.m_magc_new_mem_handles = @ \cup {v.data}]
    ELSE c

RECURSIVE examineFrom(_, _, _)
examineFrom(c, data, j) ==
    IF j > Len(data) THEN c ELSE examineFrom(examine(c, data[j]), data, j + 1)

\* the swap at the end of a frontier, once per iteration order of the copy
swapFrontiers(c) ==
    {[c EXCEPT !.m_magc_next_mem_handles = order, !.m_magc_new_mem_handles = {}] :
        order \in Perms(c.m_magc_new_mem_handles)}

\* Sweep without its test of the mark: every cell is collected
Unmarked_ignoresMark(c) == DOMAIN c.m_mem_handles

\* the cells Sweep collects
Unmarked(c) == {id \in DOMAIN c.m_mem_handles : c.m_mem_handles[id].flags = 0}

\* Sweep: the garbage list in the iteration order of m_mem_handles, then release
sweep(c) ==
    {releaseGarbage(c, m_magc_tmp_garbage_allocs) :
        m_magc_tmp_garbage_allocs \in Perms(Unmarked(c))}

\* unbudgeted: second for-loop of the while body, from the i-th frontier cell;
\* m_mem_handles.at(p) throws std::out_of_range for an absent p
RECURSIVE markFrontier(_, _)
markFrontier(c, i) ==
    IF i > Len(c.m_magc_next_mem_handles) THEN Ok(c)
    ELSE LET p == c.m_magc_next_mem_handles[i]
         IN  IF ~Present(c, p) THEN Throw(c, "out_of_range")
             ELSE markFrontier(
                      examineFrom(markCell(c, p), c.m_mem_handles[p].data, 1), i + 1)

\* unbudgeted: the while loop and what follows it
RECURSIVE markLoop(_)
markLoop(c) ==
    IF c.m_magc_next_mem_handles = <<>>
    THEN sweep(c)
    ELSE LET r == markFrontier(transferToVisited(c), 1)
         IN  IF r.err # "none" THEN {r}
             ELSE UNION {markLoop(c2) : c2 \in swapFrontiers(r.c)}

\* majorGC(-1)
majorGCUnbudgeted(c) ==
    UNION {markLoop(c1) : c1 \in seed(resetFlags(clearScratch(c)))}

\* the budget test off by one: one slot more than max_steps is examined
BudgetExhausted_offByOne(step_counter, max_steps) == step_counter > max_steps

\* "if (step_counter >= max_steps) return;"
BudgetExhausted(step_counter, max_steps) == step_counter >= max_steps

\* budgeted, state 4: the inner loop over the data of frontier cell p from
\* slot j on.  Result: the context, whether the call returned on the budget,
\* and step_counter.
RECURSIVE scanEntries(_, _, _, _, _, _)
scanEntries(c, p, j, ihe, step_counter, max_steps) ==
    LET data == c.m_mem_handles[p].data
    IN  IF j > Len(data)
        THEN [c |-> c, err |-> "none", returned |-> FALSE, steps |-> step_counter]
        ELSE IF ihe < c.m_magc_last_handle_entry
        THEN scanEntries(c, p, j + 1, ihe + 1, step_counter, max_steps)
        ELSE IF BudgetExhausted(step_counter, max_steps)
        THEN [c |-> c, err |-> "none", returned |-> TRUE, steps |-> step_counter]
        ELSE scanEntries([examine(c, data[j]) EXCEPT !.m_magc_last_handle_entry = @ + 1],
                         p, j + 1, ihe + 1, step_counter + 1, max_steps)

\* budgeted, state 4: the outer loop over the frontier from its i-th cell on
RECURSIVE scanHandles(_, _, _, _, _)
scanHandles(c, i, ih, step_counter, max_steps) ==
    IF i > Len(c.m_magc_next_mem_handles)
    THEN [c |-> c, err |-> "none", returned |-> FALSE, steps |-> step_counter]
    ELSE LET p == c.m_magc_next_mem_handles[i]
         IN  IF ih < c.m_magc_last_handle
             THEN scanHandles(c, i + 1, ih + 1, step_counter, max_steps)
             ELSE IF ~Present(c, p)
             THEN [c |-> c, err |-> "out_of_range", returned |-> FALSE,
                   steps |-> step_counter]
             ELSE LET r == scanEntries(markCell(c, p), p, 1, 0, step_counter, max_steps)
                  IN  IF r.returned THEN r
                      ELSE scanHandles([r.c EXCEPT !.m_magc_last_handle_entry = 0,
                                                   !.m_magc_last_handle = @ + 1],
                                       i + 1, ih + 1, r.steps, max_steps)

\* finishCycle with the Sweep left out
finishCycle_noSweep(c, step_counter) ==
    {GcOutcome([c EXCEPT !.m_magc_state = 0], "none", step_counter, FALSE)}

\* budgeted: Sweep, release and "m_magc_state = 0"
finishCycle(c, step_counter) ==
    {GcOutcome([r.c EXCEPT !.m_magc_state = 0], r.err, step_counter, FALSE) :
        r \in sweep(c)}

\* returnOnBudget with "break" for "return": the call falls through to Sweep
returnOnBudget_sweeps(c, step_counter) ==
    {[o EXCEPT !.exhausted = TRUE] : o \in finishCycle(c, step_counter)}

\* budgeted: the call ends at "return;" with the collector state retained
returnOnBudget(c, step_counter) == {GcOutcome(c, "none", step_counter, TRUE)}

\* budgeted: the while loop (states 3, 4, 5) and what follows it
RECURSIVE budgetedLoop(_, _, _)
budgetedLoop(c, step_counter, max_steps) ==
    IF c.m_magc_next_mem_handles = <<>>
    THEN finishCycle(c, step_counter)
    ELSE LET c3 == IF c.m_magc_state = 3
                   THEN [transferToVisited(c) EXCEPT !.m_magc_state = 4]
                   ELSE c
             r == IF c3.m_magc_state = 4
                  THEN scanHandles(c3, 1, 0, step_counter, max_steps)
                  ELSE [c |-> c3, err |-> "none", returned |-> FALSE,
                        steps |-> step_counter]
             c4 == IF c3.m_magc_state = 4 THEN [r.c EXCEPT !.m_magc_state = 5] ELSE r.c
         IN  IF r.err # "none" THEN {GcOutcome(r.c, r.err, r.steps, FALSE)}
             ELSE IF r.returned THEN returnOnBudget(r.c, r.steps)
             ELSE UNION {budgetedLoop([c5 EXCEPT !.m_magc_last_handle = 0,
                                                 !.m_magc_last_handle_entry = 0,
                                                 !.m_magc_state = 3],
                                      r.steps, max_steps) :
                            c5 \in swapFrontiers(c4)}

\* budgeted: states 0 (clear), 1 (Reset) and 2 (Seed)
startCycle(c) ==
    LET c0 == IF c.m_magc_state = 0
              THEN [clearScratch(c) EXCEPT !.m_magc_state = 1] ELSE c
        c1 == IF c0.m_magc_state = 1
              THEN [resetFlags(c0) EXCEPT !.m_magc_state = 2] ELSE c0
    IN  IF c1.m_magc_state = 2
        THEN {[c2 EXCEPT !.m_magc_state = 3] : c2 \in seed(c1)}
        ELSE {c1}

\* majorGC(max_steps) with max_steps # -1
majorGCBudgeted(c, max_steps) ==
    UNION {budgetedLoop(c1, 0, max_steps) : c1 \in startCycle(c)}

\* void Context::majorGC(i64 max_steps): the set of outcomes, one per
\* iteration order of the unordered containers
majorGC(c, max_steps) ==
    IF max_steps = -1
    THEN {GcOutcome(r.c, r.err, 0, FALSE) : r \in majorGCUnbudgeted(c)}
    ELSE majorGCBudgeted(c, max_steps)

\* ------------------------------------------------------------------ scenarios
\* A call of the embedder; every argument is written as a Value.
Call(op, args) == [op |-> op, args |-> args]

\* spec.md section 8, scenario 6 (under-budget safety), then the two reads
UnderBudgetScenario ==
    << Call("alloc", <<INT(1)>>), Call("alloc", <<INT(1)>>),
       Call("write", <<HANDLE(1), INT(0), HANDLE(2)>>),
       Call("write", <<HANDLE(2), INT(0), HANDLE(1)>>),
       Call("assign", <<INT(1), HANDLE(1)>>), Call("assign", <<INT(2), HANDLE(2)>>),
       Call("erase", <<INT(1)>>), Call("erase", <<INT(2)>>),
       Call("minorGC", <<>>), Call("majorGC", <<INT(1)>>),
       Call("read", <<HANDLE(1), INT(0)>>),
       Call("majorGC", <<INT(-1)>>),
       Call("read", <<HANDLE(1), INT(0)>>) >>

\* a handle used after its cell was released by minor_gc
ReleasedHandleScenario ==
    << Call("alloc", <<INT(1)>>), Call("assign", <<INT(1), HANDLE(1)>>),
       Call("erase", <<INT(1)>>), Call("minorGC", <<>>),
       Call("read", <<HANDLE(1), INT(0)>>) >>

\* an allocation made after a cell was released by minor_gc
AllocAfterReleaseScenario ==
    << Call("alloc", <<INT(1)>>), Call("assign", <<INT(1), HANDLE(1)>>),
       Call("erase", <<INT(1)>>), Call("minorGC", <<>>),
       Call("alloc", <<INT(1)>>) >>

\* a ref_count that reaches 0 and is raised again before minor_gc runs
TransientZeroScenario ==
    << Call("alloc", <<INT(1)>>), Call("assign", <<INT(1), HANDLE(1)>>),
       Call("erase", <<INT(1)>>), Call("assign", <<INT(1), HANDLE(1)>>),
       Call("minorGC", <<>>), Call("read", <<HANDLE(1), INT(0)>>) >>

Scenarios == {UnderBudgetScenario, ReleasedHandleScenario, AllocAfterReleaseScenario,
              TransientZeroScenario}

IsScenarioPrefix(calls) ==
    \E s \in Scenarios : Len(calls) <= Len(s) /\ SubSeq(s, 1, Len(calls)) = calls

OffScript == [on |-> FALSE, calls |-> <<>>]

\* the kind of call recorded in last
Kind(op) == IF op \in {"minorGC", "majorGC"} THEN op ELSE "access"

\* ------------------------------------------------------------------ actions
\* Context() = default: the member initialisers of rt.h
Init ==
    /\ m_alloc_counter = 1
    /\ m_data = <<>>
    /\ m_mem_handles = <<>>
    /\ m_gc_candidates = <<>>
    /\ m_magc_visited_mem_handles = {}
    /\ m_magc_new_mem_handles = {}
    /\ m_magc_next_mem_handles = <<>>
    /\ m_magc_last_handle = 0
    /\ m_magc_last_handle_entry = 0
    /\ m_magc_state = 0
    /\ last = [op |-> "Context", err |-> "none",
               max_steps |-> 0, steps |-> 0, exhausted |-> FALSE]
    /\ script = [on |-> TRUE, calls |-> <<>>]

\* The call ends with outcome o: the context it leaves becomes the state.
\* The candidate list is capped at MaxCand.
Install(o, call, max_steps, steps, exhausted) ==
    /\ Len(o.c.m_gc_candidates) <= MaxCand
    /\ m_alloc_counter' = o.c.m_alloc_counter
    /\ m_data' = o.c.m_data
    /\ m_mem_handles' = o.c.m_mem_handles
    /\ m_gc_candidates' = o.c.m_gc_candidates
    /\ m_magc_visited_mem_handles' = o.c.m_magc_visited_mem_handles
    /\ m_magc_new_mem_handles' = o.c.m_magc_new_mem_handles
    /\ m_magc_next_mem_handles' = o.c.m_magc_next_mem_handles
    /\ m_magc_last_handle' = o.c.m_magc_last_handle
    /\ m_magc_last_handle_entry' = o.c.m_magc_last_handle_entry
    /\ m_magc_state' = o.c.m_magc_state
    /\ last' = [op |-> Kind(call.op), err |-> o.err,
                max_steps |-> max_steps, steps |-> steps, exhausted |-> exhausted]
    /\ script' = IF script.on /\ IsScenarioPrefix(Append(script.calls, call))
                 THEN [on |-> TRUE, calls |-> Append(script.calls, call)]
                 ELSE OffScript

Alloc(size) ==
    /\ size >= 0 => m_alloc_counter <= MaxAllocs
    /\ \E o \in {alloc(Context, size)} :
           Install(o, Call("alloc", <<INT(size)>>), 0, 0, FALSE)

Read(array, index) ==
    \E o \in {read(Context, array, index)} :
        Install(o, Call("read", <<array, INT(index)>>), 0, 0, FALSE)

Write(array, index, value) ==
    \E o \in {write(Context, array, index, value)} :
        Install(o, Call("write", <<array, INT(index), value>>), 0, 0, FALSE)

Push(array, value) ==
    /\ assertValidMemHandle(Context, array) =>
           Len(m_mem_handles[array.data].data) < MaxLen
    /\ \E o \in {push(Context, array, value)} :
           Install(o, Call("push", <<array, value>>), 0, 0, FALSE)

Pop(array) ==
    \E o \in {pop(Context, array)} : Install(o, Call("pop", <<array>>), 0, 0, FALSE)

Assign(id, value) ==
    \E o \in {assign(Context, id, value)} :
        Install(o, Call("assign", <<INT(id), value>>), 0, 0, FALSE)

Erase(id) ==
    \E o \in {erase(Context, id)} : Install(o, Call("erase", <<INT(id)>>), 0, 0, FALSE)

MinorGC ==
    \E o \in {minorGC(Context)} : Install(o, Call("minorGC", <<>>), 0, 0, FALSE)

MajorGC(max_steps) ==
    \E o \in majorGC(Context, max_steps) :
        Install(o, Call("majorGC", <<INT(max_steps)>>), max_steps, o.steps, o.exhausted)

Next ==
    \/ \E size \in Sizes : Alloc(size)
    \/ \E array \in ArgValues, index \in Indices : Read(array, index)
    \/ \E array \in ArgValues, index \in Indices, value \in ArgValues :
           Write(array, index, value)
    \/ \E array \in ArgValues, value \in ArgValues : Push(array, value)
    \/ \E array \in ArgValues : Pop(array)
    \/ \E id \in VarIds, value \in ArgValues : Assign(id, value)
    \/ \E id \in VarIds : Erase(id)
    \/ MinorGC
    \/ \E max_steps \in Budgets : MajorGC(max_steps)

Spec == Init /\ [][Next]_vars

\* ------------------------------------------------------------------ properties
\* Vocabulary of the claims, defined on the state alone.

\* data slots <<cell, position>> of the present cells
Slots == UNION {{<<id, j>> : j \in 1..Len(m_mem_handles[id].data)} : id \in DOMAIN m_mem_handles}

\* number of handle-tagged Values carrying id in the variable table and in
\* the data of the present cells
HandleCount(id) ==
    Cardinality({v \in DOMAIN m_data : m_data[v] = HANDLE(id)})
    + Cardinality({sl \in Slots : m_mem_handles[sl[1]].data[sl[2]] = HANDLE(id)})

\* present cells held directly by a variable
RootCells == {id \in DOMAIN m_mem_handles : \E v \in DOMAIN m_data : m_data[v] = HANDLE(id)}

\* present cells one handle away from a cell of S
Children(S) ==
    {id \in DOMAIN m_mem_handles :
        \E sl \in Slots : sl[1] \in S /\ m_mem_handles[sl[1]].data[sl[2]] = HANDLE(id)}

RECURSIVE Closure(_)
Closure(S) == IF Children(S) \subseteq S THEN S ELSE Closure(S \cup Children(S))

\* cells reachable from the variable table by following handles
ReachableCells == Closure(RootCells)

CallWas(op) == last.op = op
UnbudgetedReturned == last.op = "majorGC" /\ last.max_steps = -1 /\ last.err = "none"

\* C1: at every operation boundary, every present cell's ref_count equals the
\* number of handle-tagged Values carrying its identifier in the variable table
\* and in the data slots of the present cells (invariant I1).
C1_RefCountMatchesHandles ==
    \A id \in DOMAIN m_mem_handles : m_mem_handles[id].ref_count = HandleCount(id)

\* C2: when an unbudgeted major_gc() returns, the cells present are exactly the
\* cells that were reachable from the variable table when it was called.
C2_UnbudgetedKeepsExactlyReachable ==
    [][UnbudgetedReturned' => DOMAIN m_mem_handles' = ReachableCells]_vars

\* C2 witness: an unbudgeted major_gc() has returned and a cell held by no
\* variable, only by another cell, survived it with its mark set.
C2_Witness ==
    /\ UnbudgetedReturned
    /\ \E id \in ReachableCells \ RootCells : m_mem_handles[id].flags = 1

\* budgeted calls repeated with the same budget until the state is 0 again
\* (or a call throws); calls bounds the recursion
RECURSIVE DriveBudgeted(_, _, _)
DriveBudgeted(c, max_steps, calls) ==
    UNION {IF o.err # "none" \/ o.c.m_magc_state = 0 \/ calls = 0
           THEN {o}
           ELSE DriveBudgeted(o.c, max_steps, calls - 1) :
              o \in majorGC(c, max_steps)}

\* calls that suffice to finish a cycle with a budget of at least one
EnoughCalls == MaxAllocs * (MaxLen + 1) + 1

\* the surviving cells with their ref_counts
HeapCounts(c) == [id \in DOMAIN c.m_mem_handles |-> c.m_mem_handles[id].ref_count]

\* C3: from any context whose internal state is 0, major_gc(k) repeated until
\* the state is 0 again leaves the same cells with the same ref_counts as one
\* unbudgeted major_gc() on that context, for every k >= 1.
C3_IncrementalEquivalence ==
    m_magc_state = 0 =>
        \A k \in 1..MaxBudget :
            \A o \in DriveBudgeted(Context, k, EnoughCalls) :
                (o.err = "none" /\ o.c.m_magc_state = 0) =>
                    \E u \in majorGC(Context, -1) :
                        u.err = "none" /\ HeapCounts(u.c) = HeapCounts(o.c)

\* C4: a major_gc call in which Sweep runs removes no cell that a variable
\* holds directly at that moment.
C4_SweepKeepsRoots ==
    [][(last'.op = "majorGC" /\ last'.err = "none" /\ ~last'.exhausted)
          => RootCells \subseteq DOMAIN m_mem_handles']_vars

\* C5: major_gc(k) returns normally from every reachable context, for every k.
C5_MajorGCNeverFails == CallWas("majorGC") => last.err = "none"

\* C6: minor_gc returns normally whatever the candidate list holds (duplicates,
\* released identifiers) and leaves the candidate list empty.
C6_MinorGCTolerant ==
    CallWas("minorGC") => (last.err = "none" /\ m_gc_candidates = <<>>)

\* C7: a cell whose ref_count the decouple pass of a minor_gc drove to <= 0 is
\* in the candidate list when that minor_gc returns.
C7_CascadeStaysCandidate ==
    [][(last'.op = "minorGC" /\ last'.err = "none")
          => \A id \in DOMAIN m_mem_handles \cap DOMAIN m_mem_handles' :
                (m_mem_handles'[id].ref_count < m_mem_handles[id].ref_count
                 /\ m_mem_handles'[id].ref_count <= 0)
                    => id \in Range(m_gc_candidates')]_vars

\* C8: a major_gc(k) call that returns on budget exhaustion removes no cell and
\* leaves the internal state 4; a budgeted call removes cells only when it ends
\* with the next frontier empty.
C8_ExhaustedCallSweepsNothing ==
    [][/\ (last'.op = "majorGC" /\ last'.exhausted)
            => (m_magc_state' = 4 /\ DOMAIN m_mem_handles' = DOMAIN m_mem_handles)
       /\ (last'.op = "majorGC" /\ last'.max_steps >= 0
           /\ DOMAIN m_mem_handles' # DOMAIN m_mem_handles)
            => (m_magc_next_mem_handles' = <<>> /\ ~last'.exhausted)]_vars

\* C8 witness: a budgeted call has returned on its budget while a cell that no
\* variable reaches is still in the heap store.
C8_Witness ==
    /\ CallWas("majorGC") /\ last.exhausted /\ last.err = "none"
    /\ m_magc_state = 4
    /\ DOMAIN m_mem_handles \ ReachableCells # {}

\* the under-budget scenario has been followed for n calls
UnderBudgetAt(n) == script.on /\ script.calls = SubSeq(UnderBudgetScenario, 1, n)

\* C9 as stated: in the under-budget scenario read(a,0) succeeds after
\* major_gc(1) and fails after the unbudgeted major_gc() that follows.
C9_Original ==
    /\ UnderBudgetAt(11) => last.err = "none"
    /\ UnderBudgetAt(13) => last.err = "runtime_error"

\* C9 amended: in the under-budget scenario no variable is left to seed the
\* mark, so major_gc(1) completes the cycle and sweeps both cells: read(a,0)
\* fails with an invalid handle after it, and still fails after the unbudgeted
\* major_gc().
C9_UnderBudgetScenario ==
    /\ UnderBudgetAt(10) => (m_magc_state = 0 /\ ~last.exhausted /\ DOMAIN m_mem_handles = {})
    /\ UnderBudgetAt(11) => last.err = "runtime_error"
    /\ UnderBudgetAt(13) => last.err = "runtime_error"

\* C9 witness: the whole scenario, both reads included, has run.
C9_Witness == UnderBudgetAt(13)

\* C10: whenever the internal state is 0, every present cell has flag bit 0
\* clear (invariant I4).
C10_MarksClearOutsideCycle ==
    m_magc_state = 0 => \A id \in DOMAIN m_mem_handles : m_mem_handles[id].flags = 0

\* C11: no minor_gc call removes a cell that a variable holds when it is
\* called.
C11_SharedRootKeepsAlive ==
    [][last'.op = "minorGC" => RootCells \subseteq DOMAIN m_mem_handles']_vars

\* cells reachable from id by following at least one handle
Descendants(id) == Closure(Children({id}))

\* the cells that share a cycle of handles with id (empty when id is on none)
CycleOf(id) == {x \in Descendants(id) : id \in Descendants(x)}

\* id is on a cycle none of whose cells a variable holds
OnUnrootedCycle(id) == id \in CycleOf(id) /\ CycleOf(id) \cap RootCells = {}

\* a major_gc call that ran a whole cycle: unbudgeted, or budgeted from state 0
\* to state 0
WholeCycle ==
    /\ last'.op = "majorGC" /\ last'.err = "none"
    /\ last'.max_steps = -1 \/ (m_magc_state = 0 /\ m_magc_state' = 0)

\* C12: a minor_gc call removes no cell of a cycle held by no variable and
\* leaves its ref_count >= 1; a whole major cycle started afterwards removes
\* every such cell that the variables do not reach.
C12_CycleSurvivesMinorDiesOnMajor ==
    [][/\ last'.op = "minorGC" =>
            \A id \in DOMAIN m_mem_handles :
                OnUnrootedCycle(id) =>
                    (id \in DOMAIN m_mem_handles' /\ m_mem_handles'[id].ref_count >= 1)
       /\ WholeCycle =>
            \A id \in DOMAIN m_mem_handles :
                (OnUnrootedCycle(id) /\ id \notin ReachableCells) =>
                    id \notin DOMAIN m_mem_handles']_vars

\* a handle-tagged Value whose identifier is not in the heap store
IsDanglingHandle(v) == v.type = "memory_handle" /\ ~Present(Context, v.data)

\* the outcome o is a failure that changed no cell and no candidate
FailedUnchanged(o) ==
    /\ o.err = "runtime_error"
    /\ o.c.m_mem_handles = m_mem_handles
    /\ o.c.m_gc_candidates = m_gc_candidates

\* C13: in every reachable context, a write to a valid in-bounds slot or an
\* assign whose new value is a handle not in the heap store fails and leaves
\* every cell (ref_count, data) and the candidate list as they were.
C13_FailedStoreChangesNothing ==
    /\ \A array \in ArgValues, index \in Indices, value \in ArgValues :
          (/\ assertValidMemHandle(Context, array)
           /\ index >= 0 /\ index < Len(m_mem_handles[array.data].data)
           /\ IsDanglingHandle(value))
              => FailedUnchanged(write(Context, array, index, value))
    /\ \A id \in VarIds, value \in ArgValues :
          IsDanglingHandle(value) => FailedUnchanged(assign(Context, id, value))

\* the outcome o is an invalid-handle failure that left the whole context as
\* it was
Rejected(o) == o.err = "runtime_error" /\ o.c = Context

\* the released-handle scenario has been followed to its last call
ReleasedHandleRead == script.on /\ script.calls = ReleasedHandleScenario

\* C14: in every reachable context, read, write, push and pop on an array
\* argument that is integer-tagged or whose identifier is not in the heap store
\* (never issued, or released) fail with the invalid-handle error and leave the
\* whole context unchanged; the read of a handle released by minor_gc fails.
C14_InvalidHandleRejected ==
    /\ \A array \in ArgValues :
          ~assertValidMemHandle(Context, array) =>
              /\ \A index \in Indices : Rejected(read(Context, array, index))
              /\ \A index \in Indices, value \in ArgValues :
                    Rejected(write(Context, array, index, value))
              /\ \A value \in ArgValues : Rejected(push(Context, array, value))
              /\ Rejected(pop(Context, array))
    /\ ReleasedHandleRead => (last.err = "runtime_error" /\ m_mem_handles = <<>>)

\* C14 witness: the read of the handle released by minor_gc has been rejected,
\* and every other invalid array argument is there to be tried.
C14_Witness ==
    /\ ReleasedHandleRead /\ last.err = "runtime_error"
    /\ \A array \in ArgValues : ~assertValidMemHandle(Context, array)

\* C15: from every reachable context whose internal state is 0, calling
\* major_gc(k) again and again with nothing in between brings the internal
\* state back to 0 within EnoughCalls calls, for every k >= 1.
C15_IncrementalCycleTerminates ==
    m_magc_state = 0 =>
        \A k \in 1..MaxBudget :
            \A o \in DriveBudgeted(Context, k, EnoughCalls) :
                o.err = "none" /\ o.c.m_magc_state = 0

\* C16: a major_gc(k) call with k >= 0 examines at most k data slots; a call
\* that ends on its budget has examined exactly k, and returns with the
\* internal state 4 and the frontier it was scanning; the phases outside the
\* mark loop examine no slot, so a call that finds no frontier has used none.
C16_BudgetCap ==
    (CallWas("majorGC") /\ last.max_steps >= 0) =>
        /\ last.steps <= last.max_steps
        /\ last.exhausted =>
              (/\ last.steps = last.max_steps
               /\ m_magc_state = 4
               /\ m_magc_next_mem_handles # <<>>)
        /\ (last.err = "none" /\ ~last.exhausted) => m_magc_state = 0

\* C16 witness: a call with the largest budget has examined that many slots
\* and returned on the budget with slots left to examine.
C16_Witness ==
    /\ CallWas("majorGC") /\ last.exhausted
    /\ last.max_steps = MaxBudget /\ last.steps = MaxBudget

\* DriveBudgeted with the slots examined by the calls added up
RECURSIVE DriveCounting(_, _, _, _)
DriveCounting(c, max_steps, calls, examined) ==
    UNION {IF o.err # "none" \/ o.c.m_magc_state = 0 \/ calls = 0
           THEN {[c |-> o.c, err |-> o.err, examined |-> examined + o.steps]}
           ELSE DriveCounting(o.c, max_steps, calls - 1, examined + o.steps) :
              o \in majorGC(c, max_steps)}

\* number of data slots of the cells of S in context c
RECURSIVE SlotCount(_, _)
SlotCount(c, S) ==
    IF S = {} THEN 0
    ELSE LET id == CHOOSE x \in S : TRUE
         IN  Len(c.m_mem_handles[id].data) + SlotCount(c, S \ {id})

\* the cursors name a data slot of a present frontier cell
CursorsOnSlot ==
    /\ m_magc_last_handle < Len(m_magc_next_mem_handles)
    /\ LET p == m_magc_next_mem_handles[m_magc_last_handle + 1]
       IN  /\ p \in DOMAIN m_mem_handles
           /\ m_magc_last_handle_entry < Len(m_mem_handles[p].data)

\* C17: a call that returns on its budget leaves state 4 with the cursors on
\* the slot to examine next; and a cycle driven from state 0 with nothing in
\* between, once complete, has marked every cell that entered a frontier (so
\* Sweep kept it) and has examined as many slots as those cells have.
C17_ExactResumption ==
    /\ (CallWas("majorGC") /\ last.exhausted) => (m_magc_state = 4 /\ CursorsOnSlot)
    /\ m_magc_state = 0 =>
          \A k \in 1..MaxBudget :
              \A o \in DriveCounting(Context, k, EnoughCalls, 0) :
                  (o.err = "none" /\ o.c.m_magc_state = 0) =>
                      LET frontier == o.c.m_magc_visited_mem_handles \cap DOMAIN m_mem_handles
                      IN  /\ frontier \subseteq DOMAIN o.c.m_mem_handles
                          /\ o.examined = SlotCount(Context, frontier)

\* the present cells with their data and ref_count, mark bits left out
HeapContents == [id \in DOMAIN m_mem_handles |->
                    [data |-> m_mem_handles[id].data,
                     ref_count |-> m_mem_handles[id].ref_count]]

\* every present cell is reachable from the variable table
NoGarbage == DOMAIN m_mem_handles = ReachableCells

\* C18: an unbudgeted major_gc() called on a context in which every present
\* cell is reachable from the variable table removes no cell and leaves every
\* cell's data and ref_count, the variable table and the candidate list as
\* they were (and so leaves a context on which the next call does the same).
C18_MajorGCIdempotentWithoutGarbage ==
    [][(last'.op = "majorGC" /\ last'.max_steps = -1 /\ NoGarbage) =>
          /\ HeapContents' = HeapContents
          /\ m_data' = m_data
          /\ m_gc_candidates' = m_gc_candidates
          /\ NoGarbage']_vars

\* C18 witness: an unbudgeted major_gc() has returned on a full heap without
\* garbage, with a child cell marked and a stale candidate still listed.
C18_Witness ==
    /\ UnbudgetedReturned /\ NoGarbage
    /\ Cardinality(DOMAIN m_mem_handles) = MaxAllocs
    /\ \A id \in DOMAIN m_mem_handles : m_mem_handles[id].flags = 1
    /\ RootCells # ReachableCells
    /\ m_gc_candidates # <<>>

\* C19: a minor_gc() called right after a minor_gc() returns normally and
\* leaves the heap store (cells, data, ref_counts) and the candidate list as
\* the first call left them.
C19_MinorGCIdempotent ==
    [][(last.op = "minorGC" /\ last'.op = "minorGC") =>
          /\ last'.err = "none"
          /\ m_mem_handles' = m_mem_handles
          /\ m_gc_candidates' = m_gc_candidates]_vars

\* the identifiers of the cells the step added to the heap store
NewCells == DOMAIN m_mem_handles' \ DOMAIN m_mem_handles

\* C20: the first identifier alloc returns is 1; in every step the counter
\* never decreases, a successful alloc returns the counter's value, stores the
\* new cell under it and moves the counter one past it, and every identifier
\* in the heap store (hence every identifier ever returned or released) stays
\* below the counter, so that none is returned again.
C20_AllocIdsMonotonic ==
    /\ m_alloc_counter = 1
    /\ [][/\ m_alloc_counter' >= m_alloc_counter
          /\ \A size \in Sizes :
                size >= 0 => alloc(Context, size).ret = HANDLE(m_alloc_counter)
          /\ \A id \in NewCells : id = m_alloc_counter /\ m_alloc_counter' = id + 1
          /\ m_alloc_counter' # m_alloc_counter => NewCells # {}
          /\ DOMAIN m_mem_handles' \subseteq 1..(m_alloc_counter' - 1)]_vars

\* C20 witness: after cell 1 was released by minor_gc, the next alloc has
\* returned identifier 2, not 1.
C20_Witness ==
    /\ script.on /\ script.calls = AllocAfterReleaseScenario
    /\ DOMAIN m_mem_handles = {2} /\ m_alloc_counter = 3

\* the Values of the data slots of context c, by cell and position
SlotValues(c) == [id \in DOMAIN c.m_mem_handles |-> c.m_mem_handles[id].data]

\* C21: in every reachable context, for a valid handle h, an in-bounds index i
\* and a Value v that is an integer or a valid handle, write(h,i,v) succeeds,
\* read(h,i) then returns v, and every other data slot of every cell holds what
\* it held before the write.
C21_WriteReadRoundTrip ==
    \A array \in ArgValues, index \in Indices, value \in ArgValues :
        (/\ assertValidMemHandle(Context, array)
         /\ index >= 0 /\ index < Len(m_mem_handles[array.data].data)
         /\ value.type = "integer" \/ assertValidMemHandle(Context, value))
            => LET w == write(Context, array, index, value)
                   r == read(w.c, array, index)
               IN  /\ w.err = "none"
                   /\ r.err = "none" /\ r.ret = value
                   /\ SlotValues(w.c) =
                          [SlotValues(Context) EXCEPT ![array.data][index + 1] = value]

\* the transient-zero scenario has been followed to its last call
TransientZeroRead == script.on /\ script.calls = TransientZeroScenario

\* C22: no call other than minor_gc and major_gc removes a cell, so a cell
\* whose ref_count fell to <= 0 stays in the heap store until a collector runs;
\* and a minor_gc removes no cell whose ref_count is above 0 when it is called,
\* candidate or not: in the transient-zero scenario the cell is read after it.
C22_DeferredRelease ==
    [][/\ last'.op = "access" => DOMAIN m_mem_handles \subseteq DOMAIN m_mem_handles'
       /\ last'.op = "minorGC" =>
             \A id \in DOMAIN m_mem_handles :
                 m_mem_handles[id].ref_count > 0 => id \in DOMAIN m_mem_handles'
       /\ TransientZeroRead' => last'.err = "none"]_vars

\* C22 witness: the cell whose ref_count went 1, 0, 1 while it was a candidate
\* has survived minor_gc and has been read.
C22_Witness ==
    /\ TransientZeroRead /\ last.err = "none"
    /\ 1 \in DOMAIN m_mem_handles /\ m_mem_handles[1].ref_count = 1
    /\ m_gc_candidates = <<>>

\* a budgeted major_gc call that ran Sweep and ended the cycle
BudgetedCycleEnds ==
    /\ last'.op = "majorGC" /\ last'.max_steps >= 0
    /\ last'.err = "none" /\ ~last'.exhausted

\* C23: when a budgeted cycle ends, every cell that entered one of its
\* frontiers (the cells the variables held when Seed ran, and the cells found
\* from them) and is still present when Sweep runs survives that Sweep, marked,
\* whatever was erased while the cycle was paused.
C23_SnapshotAtSeedRetention ==
    [][BudgetedCycleEnds =>
          \A id \in m_magc_visited_mem_handles' \cap DOMAIN m_mem_handles :
              id \in DOMAIN m_mem_handles' /\ m_mem_handles'[id].flags = 1]_vars

\* the handle-tagged Values stored in the variable table and in the data slots
\* of the present cells
StoredHandles ==
    {m_data[v] : v \in {w \in DOMAIN m_data : m_data[w].type = "memory_handle"}}
    \cup {m_mem_handles[sl[1]].data[sl[2]] :
            sl \in {t \in Slots : m_mem_handles[t[1]].data[t[2]].type = "memory_handle"}}

\* C24: at every operation boundary, every handle stored in a variable or in a
\* data slot of a present cell carries the identifier of a present cell.
C24_NoDanglingHandles ==
    \A h \in StoredHandles : h.data \in DOMAIN m_mem_handles

\* C25: in every reachable context, an assign to an undefined variable that
\* fails because the value is a handle not in the heap store leaves the
\* variable undefined and the variable table as it was.
C25_FailedAssignDefinesNothing ==
    \A id \in VarIds, value \in ArgValues :
        (~varIsDefined(Context, id) /\ IsDanglingHandle(value)) =>
            LET o == assign(Context, id, value)
            IN  /\ o.err = "runtime_error"
                /\ ~varIsDefined(o.c, id)
                /\ o.c.m_data = m_data

\* the frontier a budgeted call works on: the one Seed builds when the call
\* starts a cycle, the retained one when the call resumes
FrontierAtCall ==
    IF m_magc_state = 0 THEN RootHandles(Context) ELSE Range(m_magc_next_mem_handles)

\* some present cell of that frontier has a data slot
FrontierHasSlot ==
    \E p \in FrontierAtCall \cap DOMAIN m_mem_handles : Len(m_mem_handles[p].data) >= 1

\* C26: a major_gc(0) call examines no data slot; when a cell of its frontier
\* has a data slot it returns on the budget with state 4 and removes nothing,
\* so it reaches state 0 only when no frontier cell has a data slot.
C26_ZeroBudgetNoProgress ==
    [][(last'.op = "majorGC" /\ last'.max_steps = 0 /\ last'.err = "none") =>
          /\ last'.steps = 0
          /\ FrontierHasSlot =>
                (/\ last'.exhausted /\ m_magc_state' = 4
                 /\ DOMAIN m_mem_handles' = DOMAIN m_mem_handles)]_vars

\* C27: at every operation boundary the internal state is 0 with both cursors
\* 0, or 4 with a non-empty next frontier all of whose cells are in the visited
\* set; and after an unbudgeted major_gc() the state is 0 with both cursors 0.
C27_WellFormedIncrementalState ==
    /\ \/ /\ m_magc_state = 0
          /\ m_magc_last_handle = 0 /\ m_magc_last_handle_entry = 0
       \/ /\ m_magc_state = 4
          /\ m_magc_next_mem_handles # <<>>
          /\ Range(m_magc_next_mem_handles) \subseteq m_magc_visited_mem_handles
    /\ (CallWas("majorGC") /\ last.max_steps = -1) =>
          (m_magc_state = 0 /\ m_magc_last_handle = 0 /\ m_magc_last_handle_entry = 0)

====
